---- MODULE Spec2Model ----
(***************************************************************************)
(* Model of the moltworker gateway supervisor (findExistingMoltbotProcess, *)
(* ensureMoltbotGateway) and of the WebSocket relay of the catch-all       *)
(* proxy route, as found in src/src/routes/public.ts.                      *)
(*                                                                         *)
(* JavaScript strings are sequences of one-character strings, so that      *)
(* String.prototype.includes, .length and .slice are computed as the code  *)
(* computes them.                                                          *)
(***************************************************************************)
EXTENDS Integers, Sequences, FiniteSets, TLC

\* ------------------------------------------------------------------------
\* Bounds of the model
\* ------------------------------------------------------------------------

\* number of ensureMoltbotGateway() calls made in a run
MaxCalls == 2

\* ------------------------------------------------------------------------
\* Strings
\* ------------------------------------------------------------------------

\* String.prototype.includes
Includes(s, pat) ==
    \E i \in 0..(Len(s) - Len(pat)) : SubSeq(s, i + 1, i + Len(pat)) = pat

PAT_START_MOLTBOT ==
    <<"s","t","a","r","t","-","m","o","l","t","b","o","t",".","s","h">>

PAT_OPENCLAW_GATEWAY ==
    <<"o","p","e","n","c","l","a","w"," ","g","a","t","e","w","a","y">>

PAT_OPENCLAW_DEVICES ==
    <<"o","p","e","n","c","l","a","w"," ","d","e","v","i","c","e","s">>

PAT_OPENCLAW_VERSION ==
    <<"o","p","e","n","c","l","a","w"," ","-","-","v","e","r","s","i","o","n">>

\* the command ensureMoltbotGateway starts: '/usr/local/bin/start-moltbot.sh'
command ==
    <<"/","u","s","r","/","l","o","c","a","l","/","b","i","n","/",
      "s","t","a","r","t","-","m","o","l","t","b","o","t",".","s","h">>

\* Commands a process of the sandbox may have been started with.  The state
\* holds the name; CommandText gives the command line the code inspects.
CommandText(name) ==
    CASE name = "startScript" -> command
      [] name = "openclawGateway" ->
           <<"o","p","e","n","c","l","a","w"," ","g","a","t","e","w","a","y",
             " ","-","-","p","o","r","t"," ","1","8","7","8","9">>
      [] name = "devicesList" ->
           <<"o","p","e","n","c","l","a","w"," ","d","e","v","i","c","e","s",
             " ","l","i","s","t">>
      [] name = "version" ->
           <<"o","p","e","n","c","l","a","w"," ","-","-","v","e","r","s","i","o","n">>
      [] name = "scriptThenVersion" ->
           <<"s","t","a","r","t","-","m","o","l","t","b","o","t",".","s","h",";",
             " ","o","p","e","n","c","l","a","w"," ","-","-","v","e","r","s","i","o","n">>
      [] OTHER -> <<"s","l","e","e","p"," ","6","0">>

CommandNames ==
    {"startScript", "openclawGateway", "devicesList", "version",
     "scriptThenVersion", "sleep"}

\* ------------------------------------------------------------------------
\* The sandbox's process table
\* ------------------------------------------------------------------------

Statuses == {"starting", "running", "failed", "completed", "killed"}

\* How the process binds the gateway port: "lan" answers the TCP wait and the
\* overlay-network fetch, "loopback" answers the TCP wait only, "none" never
\* opens the port.
Binds == {"lan", "loopback", "none"}

ProcessRecords == [command : CommandNames, status : Statuses, bind : Binds]

VARIABLES
    procs,      \* the process table, in listProcesses() order
    calls,      \* per request handler: position and locals of its current
                \* (or last) ensureMoltbotGateway() call
    made,       \* number of ensureMoltbotGateway() calls made so far
    listFailed, \* whether listProcesses() has thrown in a stale cleanup
    probe,      \* the last overlay probe of a call, when probes are recorded
    host,           \* url.host of the upgraded request
    gatewayToken,   \* c.env.MOLTBOT_GATEWAY_TOKEN, <<>> when not configured
    serverWs,       \* readyState of the client-facing endpoint
    containerWs,    \* readyState of the backend-facing endpoint
    lastEvent,      \* the event the relay handled last
    lastEffect,     \* what its listener did to the other endpoint
    reqs,           \* per request handler: the request to the catch-all
                    \* route it is handling, and how far it got
    log             \* the frames received from and sent to each endpoint,
                    \* when a session is recorded

supVars == <<procs, calls, made, listFailed, probe>>
relayVars ==
    <<host, gatewayToken, serverWs, containerWs, lastEvent, lastEffect, log>>
vars == <<supVars, relayVars, reqs>>

\* JavaScript values, as JSON.parse produces them and as the listeners
\* mutate them; x holds the named (non-index) properties of an array
Undefined == [t |-> "undefined"]
Null == [t |-> "null"]
Bool(b) == [t |-> "bool", b |-> b]
Num(n) == [t |-> "num", n |-> n]
Str(s) == [t |-> "str", s |-> s]
Empty == [k \in {} |-> Undefined]
Arr(a) == [t |-> "arr", a |-> a, x |-> Empty]
Obj(o) == [t |-> "obj", o |-> o]

\* a WebSocket frame: binary, text that JSON.parse rejects, or JSON text;
\* canon says that the text is exactly JSON.stringify of its value
Binary == [kind |-> "binary", raw |-> "bytes", canon |-> FALSE, val |-> Undefined]
TextRaw == [kind |-> "text", raw |-> "notjson", canon |-> FALSE, val |-> Undefined]
TextJSON(v, c) == [kind |-> "text", raw |-> "json", canon |-> c, val |-> v]

NoFrame == [kind |-> "none", raw |-> "none", canon |-> FALSE, val |-> Undefined]
NoEvent == [leg |-> "none", kind |-> "none", data |-> NoFrame, code |-> 0,
            reason |-> <<>>, targetOpen |-> FALSE]
NoEffect == [sent |-> FALSE, data |-> NoFrame, closeCalled |-> FALSE,
             threw |-> FALSE, code |-> 0, reason |-> <<>>]

\* the record of a session: per source endpoint the frames received, and the
\* frames passed to send() on the other endpoint, each with the position n of
\* the received frame whose listener sent it
NoLog ==
    [on |-> FALSE,
     received |-> [leg \in {"client", "container"} |-> <<>>],
     delivered |-> [leg \in {"client", "container"} |-> <<>>]]

EmptyLog == [NoLog EXCEPT !.on = TRUE]

\* proc.status === 'starting' || proc.status === 'running'
IsLive(st) == st = "starting" \/ st = "running"

\* ------------------------------------------------------------------------
\* findExistingMoltbotProcess
\* ------------------------------------------------------------------------

isGatewayProcess(cmd) ==
    Includes(cmd, PAT_START_MOLTBOT) \/ Includes(cmd, PAT_OPENCLAW_GATEWAY)

isCliCommand(cmd) ==
    Includes(cmd, PAT_OPENCLAW_DEVICES) \/ Includes(cmd, PAT_OPENCLAW_VERSION)

\* the condition under which the loop of findExistingMoltbotProcess returns proc
FindMatches(proc) ==
    /\ isGatewayProcess(CommandText(proc.command))
    /\ ~isCliCommand(CommandText(proc.command))
    /\ IsLive(proc.status)

\* a discovery that finds a process although listProcesses() threw
findDespiteListError(table, listOk) ==
    IF \E i \in 1..Len(table) : FindMatches(table[i])
    THEN CHOOSE i \in 1..Len(table) :
            /\ FindMatches(table[i])
            /\ \A j \in 1..(i - 1) : ~FindMatches(table[j])
    ELSE 0

\* a discovery that returns the last matching entry of the list
findLastMatch(table, listOk) ==
    IF listOk /\ \E i \in 1..Len(table) : FindMatches(table[i])
    THEN CHOOSE i \in 1..Len(table) :
            /\ FindMatches(table[i])
            /\ \A j \in (i + 1)..Len(table) : ~FindMatches(table[j])
    ELSE 0

\* findExistingMoltbotProcess on a listed table: the index of the first
\* matching entry, 0 for null.  listOk = FALSE: listProcesses() threw.
findExistingMoltbotProcess(table, listOk) ==
    IF listOk /\ \E i \in 1..Len(table) : FindMatches(table[i])
    THEN CHOOSE i \in 1..Len(table) :
            /\ FindMatches(table[i])
            /\ \A j \in 1..(i - 1) : ~FindMatches(table[j])
    ELSE 0

\* a cleanup loop that leaves processes with a CLI pattern alone
StaleExceptCli(proc) == FindMatches(proc)

\* the condition of the stale-process cleanup loop of ensureMoltbotGateway
StaleMatches(proc) ==
    /\ isGatewayProcess(CommandText(proc.command))
    /\ IsLive(proc.status)

RECURSIVE SelectIdx(_, _)
\* the indices i <= n of the table with StaleMatches, in list order
SelectIdx(table, n) ==
    IF n = 0 THEN <<>>
    ELSE IF StaleMatches(table[n])
         THEN Append(SelectIdx(table, n - 1), n)
         ELSE SelectIdx(table, n - 1)

\* ------------------------------------------------------------------------
\* Sandbox operations, as the supervisor sees them
\* ------------------------------------------------------------------------

\* a port wait that resolves for a process that is no longer alive
PortOpensWhenDead(table, p) == table[p].bind # "none"

\* proc.waitForPort(MOLTBOT_PORT, {mode: 'tcp', ...}) resolves when the process
\* is alive and has opened the port, and rejects otherwise
PortOpens(table, p) == IsLive(table[p].status) /\ table[p].bind # "none"

\* the gateway port answers on the overlay network (10.0.0.1)
OverlayReachable(table) ==
    \E i \in 1..Len(table) : IsLive(table[i].status) /\ table[i].bind = "lan"

\* sandbox.containerFetch(healthReq, MOLTBOT_PORT): a response of the gateway
\* when it listens on the overlay network; the sandbox's synthetic 500 or a
\* rejected fetch when nothing does.
ContainerFetch(table) ==
    IF OverlayReachable(table)
    THEN {[kind |-> "resp", status |-> s] : s \in {200, 401, 502}}
    ELSE {[kind |-> "resp", status |-> 500], [kind |-> "throw", status |-> 0]}

\* proc.kill() that resolves
Kill(table, p) ==
    [table EXCEPT ![p].status = IF IsLive(@) THEN "killed" ELSE @]

\* ------------------------------------------------------------------------
\* ensureMoltbotGateway: decisions
\* ------------------------------------------------------------------------

\* a probe that takes every response, the 500 included, for a reachable gateway
ExistingProbeAnyResponse(resp) == resp.kind = "resp"

\* a probe of the existing process that takes only a 200 for a reachable
\* gateway
ExistingProbeOkOnly(resp) == resp.kind = "resp" /\ resp.status = 200

\* the overlay probe of an existing process (lines 247-257): control reaches
\* `return existingProcess` unless the fetch rejects or the status is 500
ExistingProbeVerified(resp) == resp.kind = "resp" /\ resp.status # 500

\* a probe that takes every response, the 500 included, for a reachable gateway
NewProbeAnyResponse(resp) == resp.kind = "resp"

\* a probe that takes only a 200 for a reachable gateway
NewProbeOkOnly(resp) == resp.kind = "resp" /\ resp.status = 200

\* the overlay probe of the new process (lines 337-350): control reaches
\* `return process` unless the fetch rejects or the status is 500
NewProbeVerified(resp) == resp.kind = "resp" /\ resp.status # 500

\* the error thrown by the catch block of the launch wait (lines 322-333).
\* e is the error caught; logsOk tells whether process.getLogs() resolved.
\* With the logs at hand the inner try throws the 'Moltbot gateway failed to
\* start. Stderr: ...' error, without them getLogs() throws; either is caught
\* by `catch (logErr)`, which throws e.
LaunchWaitError(e, logsOk) ==
    LET thrownInTry == IF logsOk THEN "failedToStartStderr" ELSE "getLogsError"
        caught      == thrownInTry \in {"failedToStartStderr", "getLogsError"}
    IN  IF caught THEN e ELSE thrownInTry

\* a catch block that reports the unreachable gateway as a launch timeout
NewProbeErrorAsTimeout == "waitForPortError"

\* the error thrown by the catch block of the new process's probe (line 349)
NewProbeError == "startedNotReachable"

\* ------------------------------------------------------------------------
\* ensureMoltbotGateway: the calls
\* ------------------------------------------------------------------------

\* The request handlers that may be inside ensureMoltbotGateway at once.
Handlers == {1, 2}

\* A call that has just been made.  existingProcess, process and result hold
\* an index of the process table, 0 for none (null); e is the error caught at
\* line 322, error the error the call threw.  The other fields record what
\* the call has observed and done: the processes whose waitForPort resolved
\* (portOpen), whose overlay probe succeeded (verified) or failed (loopback),
\* on which kill() was invoked (killInvoked), whether getLogs() resolved in the
\* catch block (logsFetched), the number of startProcess invocations (started),
\* the sandbox calls that threw (threw) and the entries of the cleanup listing
\* that passed the test of lines 286-287 (listed).
NewCall ==
    [pc |-> "find", existingProcess |-> 0, process |-> 0, allProcs |-> <<>>,
     e |-> "none", logsFetched |-> FALSE, result |-> 0, error |-> "none",
     portOpen |-> {}, verified |-> {}, loopback |-> {},
     killInvoked |-> {}, started |-> 0, threw |-> {}, listed |-> {}]

IdleCall == [NewCall EXCEPT !.pc = "idle"]

\* the overlay probe answered with a status other than 500
ProbeSucceeded(resp) == resp.kind = "resp" /\ resp.status # 500

\* The call record r after the overlay probe of process p answered resp: p is
\* recorded as verified when the probe succeeded after p's waitForPort
\* resolved, and as loopback otherwise.
Observe(r, p, resp) ==
    IF ProbeSucceeded(resp) /\ p \in r.portOpen
    THEN [r EXCEPT !.verified = @ \cup {p}]
    ELSE [r EXCEPT !.loopback = @ \cup {p}]

Finished(h) == calls[h].pc \in {"returned", "threw"}

\* a launch that starts over after a failure
Retried(r, err) == [r EXCEPT !.pc = "start"]

\* throw new Error(...) / throw e in Launch (lines 310, 331, 349): the call
\* ends with the error
Thrown(r, err) == [r EXCEPT !.pc = "threw", !.error = err]

\* the call of handler h moves on to r2
Step(h, r2) ==
    /\ calls' = [calls EXCEPT ![h] = r2]
    /\ made' = made
    /\ listFailed' = (listFailed \/ "list" \in r2.threw)
    /\ UNCHANGED <<probe, relayVars, reqs>>

\* probes are not recorded
NoProbe ==
    [on |-> FALSE, call |-> 0, h |-> 0, p |-> 0,
     resp |-> [kind |-> "none", status |-> 0]]

\* the call of handler h moves on to r2 after sandbox.containerFetch answered
\* resp to its probe of process p
StepProbed(h, r2, p, resp) ==
    /\ calls' = [calls EXCEPT ![h] = r2]
    /\ made' = made
    /\ listFailed' = listFailed
    /\ probe' = IF probe.on
                THEN [on |-> TRUE, call |-> made, h |-> h, p |-> p, resp |-> resp]
                ELSE probe
    /\ UNCHANGED <<relayVars, reqs>>

At(h, pc) == calls[h].pc = pc

\* A request to the catch-all route.  kind: a WebSocket upgrade ("ws"), a
\* request that accepts text/html ("html") or any other ("api"); stage: how
\* far the handler is; relayed: the sandbox call that passed the request to
\* the backend; response: what the handler answered.  A handler at stage
\* "direct" is some caller of ensureMoltbotGateway that is not looked at.
NoRequest ==
    [kind |-> "none", stage |-> "idle", ready |-> FALSE, relayed |-> "none",
     response |-> "none", process |-> 0, unhandled |-> FALSE]

DirectCaller == [NoRequest EXCEPT !.stage = "direct"]

\* the stage of a handler once its ensureMoltbotGateway() call is made
Ensuring(stage) ==
    CASE stage = "ensure" -> "ensuring"
      [] stage = "background" -> "backgrounded"
      [] OTHER -> stage

\* a request handler calls ensureMoltbotGateway(sandbox, env); line 231:
\* await findExistingMoltbotProcess(sandbox)
Find(h) ==
    /\ made < MaxCalls
    /\ reqs[h].stage \in {"direct", "ensure", "background"}
    /\ reqs' = [reqs EXCEPT ![h].stage = Ensuring(@)]
    /\ calls[h].pc \in {"idle", "returned", "threw"}
    /\ \A g \in Handlers : g < h => calls[g].pc # "idle"
    /\ made' = made + 1
    /\ \E listOk \in BOOLEAN :
         LET found == findExistingMoltbotProcess(procs, listOk) IN
         calls' = [calls EXCEPT ![h] = [NewCall EXCEPT
                !.existingProcess = found,
                !.threw = IF listOk THEN @ ELSE @ \cup {"discover"},
                !.pc = IF found # 0 THEN "verifyPort" ELSE "cleanupList"]]
    /\ UNCHANGED <<procs, listFailed, probe, relayVars>>

\* line 240: await existingProcess.waitForPort(...)
VerifyPort(h) ==
    /\ At(h, "verifyPort")
    /\ LET p == calls[h].existingProcess IN
       Step(h, IF PortOpens(procs, p)
               THEN [calls[h] EXCEPT !.pc = "verifyFetch", !.portOpen = @ \cup {p}]
               ELSE [calls[h] EXCEPT !.pc = "killExisting"])
    /\ UNCHANGED procs

\* lines 247-259: await sandbox.containerFetch(...), return or fall to the kill
VerifyFetch(h) ==
    /\ At(h, "verifyFetch")
    /\ LET p == calls[h].existingProcess IN
       \E resp \in ContainerFetch(procs) :
         LET seen == Observe(calls[h], p, resp) IN
         StepProbed(h, IF ExistingProbeVerified(resp)
                       THEN [seen EXCEPT !.pc = "returned", !.result = p]
                       ELSE [seen EXCEPT !.pc = "killExisting"],
                    p, resp)
    /\ UNCHANGED procs

\* a catch block that throws the error of kill() on
KillFailedRethrown(r) ==
    [r EXCEPT !.threw = @ \cup {"kill"}, !.pc = "threw", !.error = "killError"]

\* the catch blocks of lines 262-264, 272-274 and 292-294 log the error of
\* kill() and let the call go on to r
KillFailed(r) == [r EXCEPT !.threw = @ \cup {"kill"}]

\* lines 260-264 and 270-274: await existingProcess.kill(), errors swallowed
\* killOk: kill() resolves
KillExistingWith(h, killOk) ==
    /\ At(h, "killExisting")
    /\ LET p == calls[h].existingProcess
           next == [calls[h] EXCEPT !.pc = "cleanupList",
                                    !.killInvoked = @ \cup {p}] IN
         /\ procs' = IF killOk THEN Kill(procs, p) ELSE procs
         /\ Step(h, IF killOk THEN next ELSE KillFailed(next))

KillExisting(h) == \E killOk \in BOOLEAN : KillExistingWith(h, killOk)

\* line 284: await sandbox.listProcesses(); the loop then visits the listed
\* entries, testing the command and the status they were listed with
CleanupList(h) ==
    /\ At(h, "cleanupList")
    /\ \E listOk \in BOOLEAN :
         LET stale == IF listOk THEN SelectIdx(procs, Len(procs)) ELSE <<>> IN
         Step(h, [calls[h] EXCEPT
                !.allProcs = stale,
                !.listed = {stale[i] : i \in 1..Len(stale)},
                !.threw = IF listOk THEN @ ELSE @ \cup {"list"},
                !.pc = IF stale # <<>> THEN "cleanupKill" ELSE "start"])
    /\ UNCHANGED procs

\* line 289: await proc.kill(); a rejected kill leaves the loop (the catch of
\* line 292 is outside of it)
CleanupKillWith(h, killOk) ==
    /\ At(h, "cleanupKill")
    /\ LET p == Head(calls[h].allProcs)
           rest == Tail(calls[h].allProcs) IN
         /\ procs' = IF killOk THEN Kill(procs, p) ELSE procs
         /\ Step(h, IF killOk
                    THEN [calls[h] EXCEPT
                            !.killInvoked = @ \cup {p},
                            !.allProcs = rest,
                            !.pc = IF rest # <<>> THEN "cleanupKill" ELSE "start"]
                    ELSE KillFailed([calls[h] EXCEPT
                            !.killInvoked = @ \cup {p},
                            !.allProcs = <<>>,
                            !.pc = "start"]))

CleanupKill(h) == \E killOk \in BOOLEAN : CleanupKillWith(h, killOk)

\* lines 303-311: await sandbox.startProcess(command, ...), rethrown on error
StartProcess(h) ==
    /\ At(h, "start")
    /\ \/ /\ Step(h, Thrown([calls[h] EXCEPT !.started = @ + 1],
                             "startProcessError"))
          /\ UNCHANGED procs
       \/ \E b \in Binds :
          /\ procs' = Append(procs, [command |-> "startScript",
                                     status |-> "running", bind |-> b])
          /\ Step(h, [calls[h] EXCEPT !.pc = "waitPort", !.started = @ + 1,
                               !.process = Len(procs) + 1])

\* lines 314-333: await process.waitForPort(...), then await
\* process.getLogs() inside the same try; the catch block awaits
\* process.getLogs() again and throws.  getLogs() neither reads nor changes the
\* process table, so the three awaits are one step.
WaitPort(h) ==
    /\ At(h, "waitPort")
    /\ LET p == calls[h].process
           open == PortOpens(procs, p) IN
       \E logsOk \in BOOLEAN, catchLogsOk \in BOOLEAN :
         LET e == IF ~open THEN "waitForPortError"
                  ELSE IF ~logsOk THEN "getLogsError"
                  ELSE "none" IN
         Step(h, IF e = "none"
                 THEN [calls[h] EXCEPT !.pc = "newFetch", !.portOpen = @ \cup {p}]
                 ELSE Thrown([calls[h] EXCEPT
                                !.e = e,
                                !.logsFetched = catchLogsOk,
                                !.portOpen = IF open THEN @ \cup {p} ELSE @],
                             LaunchWaitError(e, catchLogsOk)))
    /\ UNCHANGED procs

\* lines 337-352: await sandbox.containerFetch(...), return or throw
NewFetch(h) ==
    /\ At(h, "newFetch")
    /\ LET p == calls[h].process IN
       \E resp \in ContainerFetch(procs) :
         LET seen == Observe(calls[h], p, resp) IN
         StepProbed(h, IF NewProbeVerified(resp)
                       THEN [seen EXCEPT !.pc = "returned", !.result = p]
                       ELSE Thrown(seen, NewProbeError),
                    p, resp)
    /\ UNCHANGED procs

\* ------------------------------------------------------------------------
\* Specification of the supervisor
\* ------------------------------------------------------------------------

\* no call has been made
NoCalls ==
    /\ calls = [h \in Handlers |-> IdleCall]
    /\ made = 0
    /\ listFailed = FALSE
    /\ probe = NoProbe

SupInit ==
    /\ procs = <<>>
    /\ NoCalls

\* no relay pair exists while the supervisor is studied
NoRelay ==
    /\ log = NoLog
    /\ host = <<"h">>
    /\ gatewayToken = <<>>
    /\ serverWs = "CLOSED"
    /\ containerWs = "CLOSED"
    /\ lastEvent = NoEvent
    /\ lastEffect = NoEffect

\* the callers of ensureMoltbotGateway are not looked at
DirectCallers == reqs = [h \in Handlers |-> DirectCaller]

Init == SupInit /\ NoRelay /\ DirectCallers

Next ==
    \/ \E h \in Handlers : Find(h)
    \/ \E h \in Handlers : VerifyPort(h)
    \/ \E h \in Handlers : VerifyFetch(h)
    \/ \E h \in Handlers : KillExisting(h)
    \/ \E h \in Handlers : CleanupList(h)
    \/ \E h \in Handlers : CleanupKill(h)
    \/ \E h \in Handlers : StartProcess(h)
    \/ \E h \in Handlers : WaitPort(h)
    \/ \E h \in Handlers : NewFetch(h)

Spec == Init /\ [][Next]_vars

\* ------------------------------------------------------------------------
\* Properties of the supervisor
\* ------------------------------------------------------------------------

\* no handler is inside ensureMoltbotGateway, and at least one call was made
AllCallsFinished ==
    /\ made > 0
    /\ \A h \in Handlers : calls[h].pc \in {"idle", "returned", "threw"}

\* the processes matching the gateway pattern in {starting, running}
LiveGateways == {i \in 1..Len(procs) : FindMatches(procs[i])}

\* port open and reachable on the overlay network
IsVerified(i) == PortOpens(procs, i) /\ procs[i].bind = "lan"

\* no sandbox call of a current call has thrown, and every process of the
\* table opens its port on the overlay network
HealthyRun ==
    /\ \A h \in Handlers :
         /\ calls[h].threw = {}
         /\ calls[h].error \notin {"startProcessError", "getLogsError"}
    /\ \A i \in 1..Len(procs) : procs[i].bind = "lan"

\* C1: once all ensureMoltbotGateway() calls have finished, exactly one
\* process matching the gateway pattern is starting or running, and it is
\* verified -- stated for the runs in which no sandbox call fails and every
\* started process is reachable, where only the interleaving of the calls is
\* left to decide the outcome.
C1_ConvergesToOneVerified ==
    (AllCallsFinished /\ HealthyRun) =>
        /\ Cardinality(LiveGateways) = 1
        /\ \A i \in LiveGateways : IsVerified(i)

\* C2 as stated: a process whose overlay probe failed in a call is not
\* returned by that call and, once the call is past its kill step, has been
\* killed -- also the process just started in Launch.  Stated for the calls
\* in which no kill() threw.
C2_LoopbackAlwaysKilled ==
    \A h \in Handlers : \A p \in calls[h].loopback :
        /\ calls[h].result # p
        /\ (calls[h].pc # "killExisting" /\ "kill" \notin calls[h].threw)
              => ~IsLive(procs[p].status)

\* C2 (amended): a process whose overlay probe failed in a call is never
\* returned by that call; if it is the existing process, kill() has been
\* invoked on it before the call goes on to Launch; if it is the process the
\* call has just started, the call has thrown the 'started but not
\* reachable' error without invoking kill() on it.
C2_LoopbackNeverReturned ==
    \A h \in Handlers : \A p \in calls[h].loopback :
        /\ calls[h].result # p
        /\ p \in {calls[h].existingProcess, calls[h].process}
        /\ (p = calls[h].existingProcess /\ calls[h].pc # "killExisting")
              => p \in calls[h].killInvoked
        /\ p = calls[h].process
              => /\ calls[h].pc = "threw"
                 /\ calls[h].error = "startedNotReachable"
                 /\ p \notin calls[h].killInvoked

\* C2 witness: an existing process failed the overlay probe, was killed, and
\* the call returned the process it then launched
C2_Witness ==
    \E h \in Handlers :
        /\ calls[h].existingProcess \in calls[h].loopback
        /\ procs[calls[h].existingProcess].status = "killed"
        /\ calls[h].pc = "returned"
        /\ calls[h].result = calls[h].process

\* C3: a call that has terminated has either thrown (an error, no result) or
\* returned a process for which, within the call, waitForPort resolved and
\* the overlay probe then succeeded with a status other than 500.
C3_ReturnedIsVerified ==
    \A h \in Handlers :
        /\ calls[h].pc = "threw"
              => calls[h].error # "none" /\ calls[h].result = 0
        /\ calls[h].pc = "returned"
              => /\ calls[h].error = "none"
                 /\ calls[h].result # 0
                 /\ calls[h].result \in calls[h].portOpen
                 /\ calls[h].result \in calls[h].verified
        /\ calls[h].result # 0 => calls[h].pc = "returned"

\* C3 witness: a call returned the process it launched, and another returned
\* the existing process
C3_Witness ==
    \E h \in Handlers, g \in Handlers :
        /\ calls[h].pc = "returned" /\ calls[h].result = calls[h].process
        /\ calls[g].pc = "returned" /\ calls[g].result = calls[g].existingProcess

\* C9: when the launched process does not open its port and its logs can be
\* fetched, the call throws the 'Moltbot gateway failed to start. Stderr:
\* ...' error, not the bare waitForPort error.
C9_LaunchTimeoutCarriesStderr ==
    \A h \in Handlers :
        (calls[h].pc = "threw" /\ calls[h].e = "waitForPortError"
            /\ calls[h].logsFetched)
          => calls[h].error = "failedToStartStderr"

\* C10: when the launched process opens its port and fails the overlay probe,
\* the call throws the 'started but not reachable' error, which is none of
\* the errors of a launch timeout, and it has invoked startProcess once.
C10_StartedNotReachable ==
    \A h \in Handlers :
        (calls[h].process # 0 /\ calls[h].process \in calls[h].portOpen
            /\ calls[h].process \in calls[h].loopback)
          => /\ calls[h].pc = "threw"
             /\ calls[h].error = "startedNotReachable"
             /\ calls[h].error \notin
                  {"waitForPortError", "failedToStartStderr", "getLogsError"}
             /\ calls[h].started = 1

\* C10 witness: a launched process opened its port and failed the probe
C10_Witness ==
    \E h \in Handlers :
        /\ calls[h].process # 0
        /\ calls[h].process \in calls[h].portOpen
        /\ calls[h].process \in calls[h].loopback
        /\ procs[calls[h].process].bind = "loopback"

\* the errors a call can throw from Launch (lines 310, 331, 349)
LaunchErrors ==
    {"startProcessError", "waitForPortError", "getLogsError", "startedNotReachable"}

\* C11: when the existing process found by Discover failed Verify (kill() was
\* invoked on it) and the overlay probe of the process then launched
\* succeeded, the call has returned the new process without an error; a call
\* that found an existing process throws only out of Launch, after it has
\* invoked startProcess.
C11_FailedExistingThenLaunchReturns ==
    \A h \in Handlers :
        LET r == calls[h] IN
        r.existingProcess # 0 =>
          /\ (r.existingProcess \in r.killInvoked /\ r.process \in r.verified)
                => /\ r.pc = "returned"
                   /\ r.result = r.process
                   /\ r.result # r.existingProcess
                   /\ r.error = "none"
          /\ r.pc = "threw"
                => /\ r.error \in LaunchErrors
                   /\ r.started = 1
                   /\ r.existingProcess \in r.killInvoked

\* C11 witness: the port of the existing process never opened, and the call
\* returned the process it launched after its probe succeeded
C11_Witness ==
    \E h \in Handlers :
        LET r == calls[h] IN
        /\ r.existingProcess # 0
        /\ r.existingProcess \notin r.portOpen
        /\ r.existingProcess \in r.killInvoked
        /\ r.process \in r.verified
        /\ r.pc = "returned"
        /\ r.result = r.process

\* the process that the call of h started has been killed by the cleanup of
\* the call of another handler, both calls having found no existing process
KilledByOtherCleanup(h) ==
    /\ calls[h].process # 0
    /\ calls[h].existingProcess = 0
    /\ procs[calls[h].process].status = "killed"
    /\ \E g \in Handlers \ {h} :
         /\ calls[g].existingProcess = 0
         /\ calls[h].process \in calls[g].killInvoked

\* C19: when the cleanup of one caller has killed the process another caller
\* has just started, that caller's call fails or returns the killed process:
\* its port wait, if still pending, rejects and the call throws the error of
\* the wait; its overlay probe, if the port had opened before, ends in the
\* 'started but not reachable' error or in the return of the killed process.
C19_KilledByConcurrentCleanup ==
    [][\A h \in Handlers :
        (KilledByOtherCleanup(h) /\ calls'[h] # calls[h]) =>
          /\ calls[h].pc = "waitPort"
                => /\ calls'[h].pc = "threw"
                   /\ calls'[h].error = "waitForPortError"
          /\ calls[h].pc = "newFetch"
                => \/ /\ calls'[h].pc = "threw"
                       /\ calls'[h].error = "startedNotReachable"
                    \/ /\ calls'[h].pc = "returned"
                       /\ calls'[h].result = calls[h].process
                       /\ ~IsLive(procs'[calls'[h].result].status)]_vars

\* C19 witness: both callers found no process and started one; the cleanup of
\* one killed the process of the other, whose call threw
C19_Witness ==
    \E h \in Handlers :
        /\ KilledByOtherCleanup(h)
        /\ calls[h].pc = "threw"
        /\ calls[h].error = "waitForPortError"
        /\ \E g \in Handlers \ {h} : calls[g].started = 1 /\ calls[g].process # 0

\* C16: when listProcesses() threw in the discovery of a call, the discovery
\* returned null and the call did not throw for it: the call has no existing
\* process, skips Verify, kills no process but those of its own cleanup
\* listing, and throws only errors of Launch.
C16_DiscoveryFailureIsNull ==
    \A h \in Handlers :
        LET r == calls[h] IN
        "discover" \in r.threw =>
          /\ r.existingProcess = 0
          /\ r.pc \in {"cleanupList", "cleanupKill", "start", "waitPort",
                        "newFetch", "returned", "threw"}
          /\ r.pc = "threw" => r.error \in LaunchErrors /\ r.started = 1
          /\ r.pc = "returned" => r.result = r.process /\ r.started = 1

\* C16 witness: listProcesses() threw in the discovery while a gateway was
\* running, and the call went on to start another
C16_Witness ==
    \E h \in Handlers :
        LET r == calls[h] IN
        /\ "discover" \in r.threw
        /\ r.started = 1
        /\ r.process # 0
        /\ \E i \in 1..Len(procs) : i # r.process /\ FindMatches(procs[i])

\* C15: a kill() that threw in a call -- on the existing process or on a
\* stale process of the cleanup -- is never the error of the call, and the
\* call goes on to startProcess: it is at the cleanup or at startProcess, or
\* has invoked startProcess, and if it has thrown, the error is one of Launch.
C15_KillFailureSwallowed ==
    \A h \in Handlers :
        LET r == calls[h] IN
        "kill" \in r.threw =>
          /\ r.error # "killError"
          /\ r.pc \in {"cleanupList", "cleanupKill", "start", "waitPort",
                        "newFetch", "returned", "threw"}
          /\ r.pc \in {"waitPort", "newFetch", "returned", "threw"}
                => r.started = 1
          /\ r.pc = "threw" => r.error \in LaunchErrors

\* C15 witness: kill() threw on the existing process, which is still alive,
\* and the call returned the process it launched
C15_Witness ==
    \E h \in Handlers :
        LET r == calls[h] IN
        /\ "kill" \in r.threw
        /\ r.existingProcess \in r.killInvoked
        /\ IsLive(procs[r.existingProcess].status)
        /\ r.pc = "returned"
        /\ r.result = r.process

\* ------------------------------------------------------------------------
\* Processes left in the sandbox by a previous deploy
\* ------------------------------------------------------------------------

MaxInitProcs == 2

\* processes the table may hold before the first call: gateways of a previous
\* deploy, running or exited, and a running CLI command
InitialProcs ==
    [command : {"startScript", "openclawGateway", "scriptThenVersion"},
     status : {"running"},
     bind : {"lan", "loopback"}]
    \cup [command : {"startScript", "openclawGateway", "scriptThenVersion"},
          status : {"completed"},
          bind : {"none"}]
    \cup [command : {"devicesList"}, status : {"running"}, bind : {"none"}]

RECURSIVE TablesOf(_)
\* the process tables of length n
TablesOf(n) ==
    IF n = 0 THEN {<<>>}
    ELSE {Append(t, p) : t \in TablesOf(n - 1), p \in InitialProcs}

\* the process tables of up to n entries
InitialTables(n) == UNION {TablesOf(k) : k \in 0..n}

\* the processes with the gateway pattern in {starting, running}
GatewayPatternLive(table) ==
    {i \in 1..Len(table) :
        /\ isGatewayProcess(CommandText(table[i].command))
        /\ IsLive(table[i].status)}

\* the handler whose calls follow one another
Caller == 1

\* Calls of one handler, one after the other, on a table left by a previous
\* deploy; kill() and listProcesses() may throw.
DeployInit ==
    /\ procs \in InitialTables(MaxInitProcs)
    /\ NoCalls
    /\ NoRelay
    /\ DirectCallers

DeployNext ==
    \/ Find(Caller)
    \/ VerifyPort(Caller)
    \/ VerifyFetch(Caller)
    \/ KillExisting(Caller)
    \/ CleanupList(Caller)
    \/ CleanupKill(Caller)
    \/ StartProcess(Caller)
    \/ WaitPort(Caller)
    \/ NewFetch(Caller)

DeploySpec == DeployInit /\ [][DeployNext]_vars

\* The same calls where every kill() resolves and the table holds at most one
\* gateway-pattern process in {starting, running} before the first call.
SerialInit ==
    /\ procs \in {t \in InitialTables(MaxInitProcs) :
                        Cardinality(GatewayPatternLive(t)) <= 1}
    /\ NoCalls
    /\ NoRelay
    /\ DirectCallers

SerialNext ==
    \/ Find(Caller)
    \/ VerifyPort(Caller)
    \/ VerifyFetch(Caller)
    \/ KillExistingWith(Caller, TRUE)
    \/ CleanupList(Caller)
    \/ CleanupKillWith(Caller, TRUE)
    \/ StartProcess(Caller)
    \/ WaitPort(Caller)
    \/ NewFetch(Caller)

SerialSpec == SerialInit /\ [][SerialNext]_vars

C20_EveryStaleKillInvoked ==
    \A h \in Handlers :
        calls[h].pc = "start" => calls[h].listed \subseteq calls[h].killInvoked

\* Discovery on any table: every command and every status.
DiscoverProcs == [command : CommandNames, status : Statuses, bind : {"none"}]

RECURSIVE TablesOver(_, _)
\* the tables of length n with entries from S
TablesOver(S, n) ==
    IF n = 0 THEN {<<>>}
    ELSE {Append(t, p) : t \in TablesOver(S, n - 1), p \in S}

MaxListed == 2

\* the tables of up to n entries
DiscoverTables(n) == UNION {TablesOver(DiscoverProcs, k) : k \in 0..n}

DiscoverInit ==
    /\ procs \in DiscoverTables(MaxListed)
    /\ NoCalls
    /\ NoRelay
    /\ DirectCallers

DiscoverNext == Find(Caller)

DiscoverSpec == DiscoverInit /\ [][DiscoverNext]_vars

\* the entry's command contains 'start-moltbot.sh' or 'openclaw gateway',
\* contains neither 'openclaw devices' nor 'openclaw --version', and its status
\* is starting or running
GatewayEntry(proc) ==
    LET cmd == CommandText(proc.command) IN
    /\ Includes(cmd, PAT_START_MOLTBOT) \/ Includes(cmd, PAT_OPENCLAW_GATEWAY)
    /\ ~Includes(cmd, PAT_OPENCLAW_DEVICES)
    /\ ~Includes(cmd, PAT_OPENCLAW_VERSION)
    /\ proc.status \in {"starting", "running"}

\* C23: findExistingMoltbotProcess() returns a process p if and only if the
\* process list contains an entry whose command contains 'start-moltbot.sh' or
\* 'openclaw gateway', contains neither 'openclaw devices' nor
\* 'openclaw --version', and whose status is starting or running; p is the
\* first such entry in list order; in every other case it returns null.
\* Stated of the discovery whose listProcesses() returned the list.
C23_DiscoverFirstMatch ==
    [][\A h \in Handlers :
        (/\ calls[h].pc \in {"idle", "returned", "threw"}
         /\ calls'[h] # calls[h]
         /\ "discover" \notin calls'[h].threw)
        => LET found == calls'[h].existingProcess
               entries == {i \in 1..Len(procs) : GatewayEntry(procs[i])} IN
           /\ entries = {} => found = 0
           /\ entries # {} => /\ found \in entries
                               /\ \A j \in entries : found <= j]_vars

\* C23 witness: the list holds such an entry behind a gateway-pattern entry
\* that is not one (its command has a CLI pattern too, or it has exited), and
\* the second entry was returned
C23_Witness ==
    LET r == calls[Caller] IN
    /\ r.pc = "verifyPort"
    /\ "discover" \notin r.threw
    /\ Len(procs) = 2
    /\ ~GatewayEntry(procs[1])
    /\ isGatewayProcess(CommandText(procs[1].command))
    /\ GatewayEntry(procs[2])
    /\ r.existingProcess = 2

\* Concurrent calls on an empty table, the overlay probes recorded.
ProbeInit ==
    /\ procs = <<>>
    /\ calls = [h \in Handlers |-> IdleCall]
    /\ made = 0
    /\ listFailed = FALSE
    /\ probe = [NoProbe EXCEPT !.on = TRUE]
    /\ NoRelay
    /\ DirectCallers

ProbeSpec == ProbeInit /\ [][Next]_vars

\* the response is an HTTP response with a status below the 5xx range
NonErrorStatus(resp) == resp.kind = "resp" /\ resp.status < 500

\* C22: the connectivity check classifies its outcomes: when the TCP wait
\* fails the process is unreachable and no HTTP probe is issued; when it
\* succeeds and the overlay probe returns a non-error status (4xx included)
\* the process is verified; the synthetic 5xx, and any other failure of the
\* probe (a thrown fetch included), make it loopback-only, never verified.
\* Verified is the return of the probed process; loopback-only is the kill of
\* the existing process, or the 'started but not reachable' error of the new.
C22_ProbeClassified ==
    [][/\ probe' # probe =>
            LET h == probe'.h
                p == probe'.p
                resp == probe'.resp
                r == calls[h]
                r2 == calls'[h]
                verified == r2.pc = "returned" /\ r2.result = p
                loopbackOnly ==
                    IF p = r.existingProcess
                    THEN r2.pc = "killExisting"
                    ELSE r2.pc = "threw" /\ r2.error = "startedNotReachable"
            IN  /\ p \in r.portOpen
                /\ NonErrorStatus(resp) => verified
                /\ ~NonErrorStatus(resp) => (loopbackOnly /\ ~verified)
       /\ \A h \in Handlers :
            LET r == calls[h]
                r2 == calls'[h] IN
            /\ (r.pc = "verifyPort" /\ r2 # r
                    /\ ~PortOpens(procs, r.existingProcess))
                  => (probe' = probe /\ r2.pc = "killExisting")
            /\ (r.pc = "waitPort" /\ r2 # r /\ ~PortOpens(procs, r.process))
                  => (probe' = probe /\ r2.pc = "threw")]_vars

\* C25: a single ensureMoltbotGateway() call invokes startProcess at most
\* once: after a launch timeout, a launch-unreachable result or a startProcess
\* error the call throws without retrying, and it does not kill the process it
\* started.
C25_OneLaunchNoRetry ==
    \A h \in Handlers :
        LET r == calls[h] IN
        /\ r.started <= 1
        /\ r.error \in LaunchErrors
             => /\ r.pc = "threw"
                /\ r.started = 1
                /\ r.process \notin r.killInvoked
                /\ r.process # 0 => procs[r.process].status = "running"

\* C25 witness: the launch timed out; the call threw after one startProcess
\* and the process it started is still running
C25_Witness ==
    LET r == calls[Caller] IN
    /\ r.pc = "threw"
    /\ r.error = "waitForPortError"
    /\ r.started = 1
    /\ r.process # 0
    /\ procs[r.process].status = "running"

\* C21: when Discover finds a process and Verify classifies it as verified,
\* the call returns exactly that process and leaves the process table
\* unchanged; it invokes no kill() and no startProcess(), whatever other
\* gateway-pattern processes in {starting, running} the table holds.  Stated
\* over the steps of the call: the discovery that finds a process, the port
\* wait that resolves and the probe that succeeds leave the table as it was,
\* and the process classified as verified is the one returned.
C21_VerifiedReturnedUntouched ==
    [][\A h \in Handlers :
        LET r == calls[h]
            r2 == calls'[h] IN
        r2 # r =>
          /\ (r2.pc = "verifyPort" /\ r2.existingProcess # 0)
                => procs' = procs
          /\ (r.pc \in {"verifyPort", "verifyFetch"}
                /\ r2.pc \in {"verifyFetch", "returned"})
                => /\ procs' = procs
                   /\ r2.killInvoked = {}
                   /\ r2.started = 0
          /\ (r.pc = "verifyFetch" /\ r.existingProcess \in r2.verified)
                => /\ r2.pc = "returned"
                   /\ r2.result = r.existingProcess
                   /\ r2.process = 0]_vars

\* C21 witness: the call returned the process it found although a second
\* gateway-pattern process is alive; it killed and started nothing
C21_Witness ==
    LET r == calls[Caller] IN
    /\ r.pc = "returned"
    /\ r.existingProcess # 0
    /\ r.existingProcess \in r.verified
    /\ r.result = r.existingProcess
    /\ r.killInvoked = {}
    /\ r.started = 0
    /\ Cardinality(GatewayPatternLive(procs)) >= 2

\* ------------------------------------------------------------------------
\* The catch-all proxy route up to the relay (lines 569-637, 720-737)
\* ------------------------------------------------------------------------

RequestKinds == {"ws", "html", "api"}

\* a handler that goes on to the relay whatever its ensure call came to
MayRelayAfterThrow(r) == r.pc \in {"returned", "threw"}

\* lines 599-617: control passes the try statement only when the awaited
\* ensureMoltbotGateway() call has returned; the catch block returns
MayRelay(r) == r.pc = "returned"

\* lines 577-596: findExistingMoltbotProcess, isGatewayReady, and the loading
\* page with a background ensureMoltbotGateway() for a request that accepts
\* text/html while no gateway is running
ProxyRequest(h, kind) ==
    /\ made < MaxCalls
    /\ reqs[h].stage \in {"idle", "done", "backgrounded", "settled"}
    /\ calls[h].pc \in {"idle", "returned", "threw"}
    /\ \E listOk \in BOOLEAN :
         LET found == findExistingMoltbotProcess(procs, listOk)
             ready == found # 0 /\ procs[found].status = "running"
             loading == ~ready /\ kind = "html"
         IN reqs' = [reqs EXCEPT ![h] =
                [NoRequest EXCEPT
                    !.kind = kind,
                    !.ready = ready,
                    !.stage = IF loading THEN "background" ELSE "ensure",
                    !.response = IF loading THEN "loadingPage" ELSE "none"]]
    /\ UNCHANGED <<supVars, relayVars>>

\* lines 624-637 and 720-737: sandbox.wsConnect for an upgrade, answered
\* with the 101 response or, without a webSocket, with the container's
\* response; sandbox.containerFetch for any other request
ProxyRelay(h) ==
    /\ reqs[h].stage = "ensuring"
    /\ MayRelay(calls[h])
    /\ \E resp \in IF reqs[h].kind = "ws"
                   THEN {"switchingProtocols", "containerResponse"}
                   ELSE {"proxied"} :
         reqs' = [reqs EXCEPT ![h] =
                [@ EXCEPT !.stage = "done",
                          !.relayed = IF reqs[h].kind = "ws" THEN "wsConnect"
                                      ELSE "containerFetch",
                          !.response = resp]]
    /\ UNCHANGED <<supVars, relayVars>>

\* lines 601-616: the catch block answers 503
Proxy503(h) ==
    /\ reqs[h].stage = "ensuring"
    /\ calls[h].pc = "threw"
    /\ reqs' = [reqs EXCEPT ![h] = [@ EXCEPT !.stage = "done", !.response = "503"]]
    /\ UNCHANGED <<supVars, relayVars>>

ProxyInit ==
    /\ SupInit
    /\ NoRelay
    /\ reqs = [h \in Handlers |-> NoRequest]

ProxyNext ==
    \/ \E h \in Handlers, kind \in RequestKinds : ProxyRequest(h, kind)
    \/ \E h \in Handlers : Find(h)
    \/ \E h \in Handlers : VerifyPort(h)
    \/ \E h \in Handlers : VerifyFetch(h)
    \/ \E h \in Handlers : KillExisting(h)
    \/ \E h \in Handlers : CleanupList(h)
    \/ \E h \in Handlers : CleanupKill(h)
    \/ \E h \in Handlers : StartProcess(h)
    \/ \E h \in Handlers : WaitPort(h)
    \/ \E h \in Handlers : NewFetch(h)
    \/ \E h \in Handlers : ProxyRelay(h)
    \/ \E h \in Handlers : Proxy503(h)

ProxySpec == ProxyInit /\ [][ProxyNext]_vars

\* C12: a request to the catch-all route is passed to the backend
\* (sandbox.wsConnect or sandbox.containerFetch) only after the
\* ensureMoltbotGateway() call awaited for that request has returned; when
\* that call has thrown the handler answers 503 and passes nothing on.
C12_RelayOnlyAfterEnsure ==
    \A h \in Handlers :
        LET q == reqs[h] IN
        /\ q.relayed # "none"
              => /\ calls[h].pc = "returned"
                 /\ calls[h].result # 0
                 /\ q.response \notin {"503", "loadingPage"}
        /\ q.response = "503"
              => /\ calls[h].pc = "threw"
                 /\ q.relayed = "none"
        /\ (q.stage = "done" /\ calls[h].pc = "threw")
              => q.response = "503" /\ q.relayed = "none"
        /\ q.response = "loadingPage" => q.relayed = "none"

\* C12 witness: one request was answered 503 after its ensure call threw,
\* another was upgraded after its ensure call returned
C12_Witness ==
    \E h \in Handlers, g \in Handlers :
        /\ reqs[h].response = "503"
        /\ calls[h].pc = "threw"
        /\ reqs[g].kind = "ws"
        /\ reqs[g].relayed = "wsConnect"
        /\ calls[g].pc = "returned"

\* ------------------------------------------------------------------------
\* GET /api/status (lines 34-133) and the background ensure calls
\* ------------------------------------------------------------------------

\* lines 37-77: findExistingMoltbotProcess; without a process the handler
\* passes ensureMoltbotGateway() to waitUntil and answers not_running.  The
\* listProcesses() and getLogs() calls of lines 40 and 63-66 only fill the
\* response body; their errors are caught.
StatusRequest(h) ==
    /\ made < MaxCalls
    /\ reqs[h].stage \in {"idle", "done", "backgrounded", "settled"}
    /\ calls[h].pc \in {"idle", "returned", "threw"}
    /\ \E listOk \in BOOLEAN :
         LET found == findExistingMoltbotProcess(procs, listOk) IN
         reqs' = [reqs EXCEPT ![h] =
                [NoRequest EXCEPT
                    !.kind = "status",
                    !.process = found,
                    !.stage = IF found = 0 THEN "background" ELSE "statusPort",
                    !.response = IF found = 0 THEN "not_running" ELSE "none"]]
    /\ UNCHANGED <<supVars, relayVars>>

\* lines 81-82 and 111-131: await process.waitForPort(18789, ...); when it
\* rejects the handler answers not_responding
StatusPort(h) ==
    /\ reqs[h].stage = "statusPort"
    /\ reqs' = [reqs EXCEPT ![h] =
            IF PortOpens(procs, reqs[h].process)
            THEN [@ EXCEPT !.stage = "statusHealth"]
            ELSE [@ EXCEPT !.stage = "done", !.response = "not_responding"]]
    /\ UNCHANGED <<supVars, relayVars>>

\* lines 86-109: the health request.  tokenError: the body of the response
\* includes 'gateway token' or 'unauthorized'; the handler then kills the
\* process, passes ensureMoltbotGateway() to waitUntil and answers restarting.
\* A rejected fetch and a kill() that throws are caught by `catch (healthErr)`,
\* after which the handler answers running.
StatusHealth(h) ==
    /\ reqs[h].stage = "statusHealth"
    /\ \E resp \in ContainerFetch(procs), killOk \in BOOLEAN :
       \E tokenError \in IF resp.kind = "resp" /\ OverlayReachable(procs)
                         THEN BOOLEAN ELSE {FALSE} :
         IF tokenError /\ killOk
         THEN /\ procs' = Kill(procs, reqs[h].process)
              /\ reqs' = [reqs EXCEPT ![h] =
                    [@ EXCEPT !.stage = "background", !.response = "restarting"]]
         ELSE /\ procs' = procs
              /\ reqs' = [reqs EXCEPT ![h] =
                    [@ EXCEPT !.stage = "done", !.response = "running"]]
    /\ UNCHANGED <<calls, made, listFailed, probe, relayVars>>

\* a background promise whose rejection nothing handles
UnhandledWhenThrown(r) == r.pc = "threw"

\* lines 54-56, 98-100 and 589-591: ensureMoltbotGateway(...).catch(...); the
\* handler passed to catch logs the error, so the promise given to waitUntil
\* never rejects
Unhandled(r) == FALSE

\* the background ensureMoltbotGateway() call of handler h has settled
BackgroundSettle(h) ==
    /\ reqs[h].stage = "backgrounded"
    /\ Finished(h)
    /\ reqs' = [reqs EXCEPT ![h] =
            [@ EXCEPT !.stage = "settled", !.unhandled = Unhandled(calls[h])]]
    /\ UNCHANGED <<supVars, relayVars>>

\* /api/status and browser requests to the catch-all route, with the ensure
\* calls they make; the sandbox is empty or holds a gateway that is starting
WorkerInit ==
    /\ procs \in {<<>>, <<[command |-> "startScript", status |-> "starting",
                           bind |-> "lan"]>>}
    /\ NoCalls
    /\ NoRelay
    /\ reqs = [h \in Handlers |-> NoRequest]

WorkerNext ==
    \/ \E h \in Handlers : StatusRequest(h)
    \/ \E h \in Handlers : StatusPort(h)
    \/ \E h \in Handlers : StatusHealth(h)
    \/ \E h \in Handlers : BackgroundSettle(h)
    \/ \E h \in Handlers : ProxyRequest(h, "html")
    \/ \E h \in Handlers : ProxyRelay(h)
    \/ \E h \in Handlers : Proxy503(h)
    \/ \E h \in Handlers : Find(h)
    \/ \E h \in Handlers : VerifyPort(h)
    \/ \E h \in Handlers : VerifyFetch(h)
    \/ \E h \in Handlers : KillExisting(h)
    \/ \E h \in Handlers : CleanupList(h)
    \/ \E h \in Handlers : CleanupKill(h)
    \/ \E h \in Handlers : StartProcess(h)
    \/ \E h \in Handlers : WaitPort(h)
    \/ \E h \in Handlers : NewFetch(h)

WorkerSpec == WorkerInit /\ [][WorkerNext]_vars

\* process p was returned by an ensureMoltbotGateway() call as verified
ReturnedVerified(p) ==
    \E h \in Handlers :
        /\ calls[h].pc = "returned"
        /\ calls[h].result = p
        /\ p \in calls[h].verified

\* C26: once an ensureMoltbotGateway() call has returned a verified process
\* and that process keeps answering the port and overlay probes, no operation
\* of the worker other than /api/restart kills it: neither a concurrently
\* running or later ensureMoltbotGateway() call, nor a /api/status request,
\* nor a proxied request.
C26_VerifiedNeverKilled ==
    [][\A p \in 1..Len(procs) :
        (ReturnedVerified(p) /\ IsVerified(p))
            => procs'[p].status = procs[p].status]_vars

\* the handler has passed ensureMoltbotGateway() to waitUntil
InBackground(q) == q.stage \in {"background", "backgrounded", "settled"}

\* C28: the /api/status and loading-page paths never wait for the supervisor:
\* when no gateway-pattern process in {starting, running} is found
\* (/api/status) or the found process is not in status running (HTML
\* non-WebSocket request to the catch-all), the handler starts
\* ensureMoltbotGateway() as a background task and returns its interim response
\* (not_running / loading page) without awaiting it; a failure of that
\* background ensure is caught and never changes the response or escapes as
\* an unhandled error.
C28_BackgroundNeverAwaited ==
    \A h \in Handlers :
        LET q == reqs[h] IN
        /\ (q.kind = "status" /\ q.process = 0)
              => (InBackground(q) /\ q.response = "not_running")
        /\ (q.kind = "html" /\ ~q.ready)
              => (InBackground(q) /\ q.response = "loadingPage")
        /\ q.response = "not_running"
              => (q.kind = "status" /\ q.process = 0)
        /\ q.response = "loadingPage"
              => (q.kind = "html" /\ ~q.ready)
        /\ q.response \in {"not_running", "loadingPage"}
              => (InBackground(q) /\ q.relayed = "none")
        /\ ~q.unhandled

\* C28 witness: the background ensure of a /api/status request threw and
\* settled, the response still is not_running; a browser request got the
\* loading page while the gateway is starting, and its ensure call is waiting
\* for that gateway's port
C28_Witness ==
    \E h \in Handlers, g \in Handlers :
        /\ reqs[h].kind = "status"
        /\ reqs[h].stage = "settled"
        /\ calls[h].pc = "threw"
        /\ reqs[h].response = "not_running"
        /\ reqs[g].kind = "html"
        /\ reqs[g].response = "loadingPage"
        /\ reqs[g].stage = "backgrounded"
        /\ calls[g].pc = "verifyPort"
        /\ procs[calls[g].existingProcess].status = "starting"

\* ------------------------------------------------------------------------
\* WebSocket relay of the catch-all proxy route (lines 623-718)
\* ------------------------------------------------------------------------

TOKEN_MISSING ==
    <<"g","a","t","e","w","a","y"," ","t","o","k","e","n"," ","m","i","s",
      "s","i","n","g">>
TOKEN_MISMATCH ==
    <<"g","a","t","e","w","a","y"," ","t","o","k","e","n"," ","m","i","s",
      "m","a","t","c","h">>
PAIRING_REQUIRED ==
    <<"p","a","i","r","i","n","g"," ","r","e","q","u","i","r","e","d">>
TOKEN_HINT_HEAD ==
    <<"I","n","v","a","l","i","d"," ","o","r"," ","m","i","s","s","i","n",
      "g"," ","t","o","k","e","n","."," ","V","i","s","i","t"," ","h","t",
      "t","p","s",":","/","/">>
TOKEN_HINT_TAIL ==
    <<"?","t","o","k","e","n","=","{","R","E","P","L","A","C","E","_","W",
      "I","T","H","_","Y","O","U","R","_","T","O","K","E","N","}">>
PAIRING_HINT_HEAD ==
    <<"P","a","i","r","i","n","g"," ","r","e","q","u","i","r","e","d",".",
      " ","V","i","s","i","t"," ","h","t","t","p","s",":","/","/">>
PAIRING_HINT_TAIL ==
    <<"/","_","a","d","m","i","n","/">>
ELLIPSIS ==
    <<".",".",".">>
CLIENT_ERROR ==
    <<"C","l","i","e","n","t"," ","e","r","r","o","r">>
CONTAINER_ERROR ==
    <<"C","o","n","t","a","i","n","e","r"," ","e","r","r","o","r">>

\* obj[k], for obj other than null and undefined (reading a property of
\* those throws a TypeError)
Get(v, k) ==
    IF v.t = "obj" /\ k \in DOMAIN v.o THEN v.o[k]
    ELSE IF v.t = "arr" /\ k \in DOMAIN v.x THEN v.x[k]
    ELSE Undefined

\* ToBoolean
Truthy(v) ==
    CASE v.t \in {"undefined", "null"} -> FALSE
      [] v.t = "bool" -> v.b
      [] v.t = "num" -> v.n # 0
      [] v.t = "str" -> v.s # <<>>
      [] OTHER -> TRUE

\* obj[k] = v and delete obj[k], on the property map of an object
Put(o, k, v) == [j \in DOMAIN o \cup {k} |-> IF j = k THEN v ELSE o[j]]
Del(o, K) == [j \in DOMAIN o \ K |-> o[j]]

\* JSON.stringify writes the indexed elements of an array only
Serialised(v) == IF v.t = "arr" THEN [v EXCEPT !.x = Empty] ELSE v
JSONstringify(v) ==
    TextJSON(IF v.t = "obj"
             THEN Obj([k \in DOMAIN v.o |-> Serialised(v.o[k])])
             ELSE Serialised(v), TRUE)

\* message.includes(pat): String.prototype.includes on a string,
\* Array.prototype.includes on an array; no other value has the method
HasIncludes(m) == m.t \in {"str", "arr"}
JsIncludes(m, pat) ==
    IF m.t = "str" THEN Includes(m.s, pat)
    ELSE \E i \in DOMAIN m.a : m.a[i] = Str(pat)

TokenHint(h) == TOKEN_HINT_HEAD \o h \o TOKEN_HINT_TAIL
PairingHint(h) == PAIRING_HINT_HEAD \o h \o PAIRING_HINT_TAIL

\* mutant: the pairing pattern is looked for first
transformPairingFirst(message, h) ==
    IF JsIncludes(message, PAIRING_REQUIRED) THEN Str(PairingHint(h))
    ELSE IF JsIncludes(message, TOKEN_MISSING) \/ JsIncludes(message, TOKEN_MISMATCH)
    THEN Str(TokenHint(h))
    ELSE message

\* lines 391-401
transformErrorMessage(message, h) ==
    IF JsIncludes(message, TOKEN_MISSING) \/ JsIncludes(message, TOKEN_MISMATCH)
    THEN Str(TokenHint(h))
    ELSE IF JsIncludes(message, PAIRING_REQUIRED) THEN Str(PairingHint(h))
    ELSE message

\* line 711
REASON_LIMIT == 123
REASON_KEPT == 120
\* a cap that keeps REASON_LIMIT characters in front of the ellipsis
CapReasonToLimit(reason) ==
    IF Len(reason) > REASON_LIMIT
    THEN SubSeq(reason, 1, REASON_LIMIT) \o ELLIPSIS
    ELSE reason

CapReason(reason) ==
    IF Len(reason) > REASON_LIMIT
    THEN SubSeq(reason, 1, REASON_KEPT) \o ELLIPSIS
    ELSE reason

\* lines 659-662: the device identity fields the listener deletes
DEVICE_FIELDS == {"deviceId", "devicePublicKey", "signature", "device"}

REQ == <<"r","e","q">>
RES == <<"r","e","s">>
CONNECT == <<"c","o","n","n","e","c","t">>
CHAT_SEND == <<"c","h","a","t",".","s","e","n","d">>

\* lines 651-665, for msg a connect request: the mutated msg, or threw when
\* a TypeError leaves the try block.  Line 651 takes .slice of
\* JSON.stringify(msg.params), which is undefined for params undefined;
\* line 664 creates a property on msg.params, which throws for a primitive
\* and sets a named property for an array.
ConnectRewrite(msg, token) ==
    LET params0 == Get(msg, "params")
        params == IF Truthy(params0) THEN params0 ELSE Obj(Empty)
        stripped == CASE params.t = "obj" -> Obj(Del(params.o, DEVICE_FIELDS))
                      [] params.t = "arr" -> [params EXCEPT !.x = Del(@, DEVICE_FIELDS)]
                      [] OTHER -> params
        auth == Obj([k \in {"token"} |-> Str(token)])
        withAuth == CASE stripped.t = "obj" -> Obj(Put(stripped.o, "auth", auth))
                      [] stripped.t = "arr" -> [stripped EXCEPT !.x = Put(@, "auth", auth)]
                      [] OTHER -> stripped
    IN IF params0 = Undefined \/ stripped.t \notin {"obj", "arr"}
       THEN [threw |-> TRUE, msg |-> msg]
       ELSE [threw |-> FALSE, msg |-> Obj(Put(msg.o, "params", withAuth))]

\* lines 646-649: the frame is text, a token is configured, JSON.parse
\* accepts it and reading msg.type does not throw, and it is a connect request
IsConnectRequest(data, token) ==
    /\ data.kind = "text"
    /\ token # <<>>
    /\ data.raw = "json"
    /\ data.val.t # "null"
    /\ Get(data.val, "type") = Str(REQ)
    /\ Get(data.val, "method") = Str(CONNECT)

\* mutant: every frame that parses is sent as JSON.stringify of its value
serverMessageReserialised(data, token) ==
    IF data.kind = "text" /\ token # <<>> /\ data.raw = "json"
    THEN IF IsConnectRequest(data, token) /\ ~ConnectRewrite(data.val, token).threw
         THEN JSONstringify(ConnectRewrite(data.val, token).msg)
         ELSE JSONstringify(data.val)
    ELSE data

\* a listener that sends every frame as received
serverMessageVerbatim(data, token) == data

\* lines 645-675: what the serverWs 'message' listener passes to
\* containerWs.send
serverMessage(data, token) ==
    IF IsConnectRequest(data, token)
    THEN LET r == ConnectRewrite(data.val, token) IN
         IF r.threw THEN data ELSE JSONstringify(r.msg)
    ELSE data

\* lines 678-700: what the containerWs 'message' listener passes to
\* serverWs.send.  parsed.type throws for parsed null, and
\* transformErrorMessage throws for a message without .includes; both are
\* caught and leave data as received.
containerMessage(data, h) ==
    IF data.kind = "text" /\ data.raw = "json" /\ data.val.t # "null"
    THEN LET parsed == data.val
             error == Get(parsed, "error")
             message == IF error.t \in {"undefined", "null"} THEN Undefined
                        ELSE Get(error, "message")
         IN IF Truthy(message) /\ HasIncludes(message)
            THEN JSONstringify(Obj(Put(parsed.o, "error",
                     Obj(Put(error.o, "message", transformErrorMessage(message, h))))))
            ELSE data
    ELSE data

\* WebSocket.close(code, reason) of the runtime: a code outside 1000..4999,
\* a reserved code (1004, 1005 no status, 1006 abnormal closure, 1015 TLS)
\* or a reason longer than the transport allows is rejected with an exception
CloseAccepted(code, reason) ==
    /\ code >= 1000
    /\ code < 5000
    /\ code \notin {1004, 1005, 1006, 1015}
    /\ Len(reason) <= REASON_LIMIT

AfterClose(ws, ok) == IF ok /\ ws = "OPEN" THEN "CLOSING" ELSE ws

\* whether close() threw: on an endpoint that is not OPEN the runtime may
\* return before it looks at the code
CloseThrew(ws, ok) == {~ok} \cup (IF ws = "OPEN" THEN {} ELSE {FALSE})

\* longest recorded sequence of frames from one endpoint
MaxFrames == 3

\* a recorded session has room for a frame from leg
CanLog(leg) == log.on => Len(log.received[leg]) < MaxFrames

\* a send() that overtakes the frames sent before
DeliverFirst(sent, entry) == <<entry>> \o sent

\* lines 668, 674, 700: send() is called inside the listener run, so the
\* frame follows those sent by earlier runs
Deliver(sent, entry) == Append(sent, entry)

\* the record after the listener run for event ev had effect eff
Logged(ev, eff) ==
    IF log.on /\ ev.kind = "message"
    THEN LET n == Len(log.received[ev.leg]) + 1 IN
         [log EXCEPT !.received[ev.leg] = Append(@, ev.data),
                     !.delivered[ev.leg] =
                         IF eff.sent
                         THEN Deliver(@, [n |-> n, data |-> eff.data])
                         ELSE @]
    ELSE log

RelayStep(ev, eff, sWs, cWs) ==
    /\ lastEvent' = ev
    /\ lastEffect' = eff
    /\ log' = Logged(ev, eff)
    /\ serverWs' = sWs
    /\ containerWs' = cWs
    /\ UNCHANGED <<host, gatewayToken, supVars, reqs>>

\* a test that lets a frame pass to an endpoint that is closing
MayForwardUnlessClosed(ws) == ws # "CLOSED"

\* lines 667, 674 and 700: `readyState === WebSocket.OPEN` in front of send()
MayForward(ws) == ws = "OPEN"

\* lines 645-675
ClientMessage(data) ==
    /\ serverWs # "CLOSED"
    /\ CanLog("client")
    /\ RelayStep([NoEvent EXCEPT !.leg = "client", !.kind = "message", !.data = data,
                                 !.targetOpen = (containerWs = "OPEN")],
                 IF MayForward(containerWs)
                 THEN [NoEffect EXCEPT !.sent = TRUE,
                                       !.data = serverMessage(data, gatewayToken)]
                 ELSE NoEffect,
                 serverWs, containerWs)

\* lines 678-701
ContainerMessage(data) ==
    /\ containerWs # "CLOSED"
    /\ CanLog("container")
    /\ RelayStep([NoEvent EXCEPT !.leg = "container", !.kind = "message", !.data = data,
                                 !.targetOpen = (serverWs = "OPEN")],
                 IF MayForward(serverWs)
                 THEN [NoEffect EXCEPT !.sent = TRUE,
                                       !.data = containerMessage(data, host)]
                 ELSE NoEffect,
                 serverWs, containerWs)

\* lines 704-707
ClientClose(code, reason) ==
    /\ serverWs # "CLOSED"
    /\ LET ok == CloseAccepted(code, reason) IN
       \E threw \in CloseThrew(containerWs, ok) :
         RelayStep([NoEvent EXCEPT !.leg = "client", !.kind = "close", !.code = code,
                        !.reason = reason, !.targetOpen = (containerWs = "OPEN")],
                   [NoEffect EXCEPT !.closeCalled = TRUE, !.threw = threw,
                        !.code = code, !.reason = reason],
                   "CLOSED", AfterClose(containerWs, ok))

\* lines 708-713
ContainerClose(code, r) ==
    /\ containerWs # "CLOSED"
    /\ LET reason == CapReason(transformErrorMessage(Str(r), host).s)
           ok == CloseAccepted(code, reason)
       IN \E threw \in CloseThrew(serverWs, ok) :
            RelayStep([NoEvent EXCEPT !.leg = "container", !.kind = "close",
                           !.code = code, !.reason = r, !.targetOpen = (serverWs = "OPEN")],
                      [NoEffect EXCEPT !.closeCalled = TRUE, !.threw = threw,
                           !.code = code, !.reason = reason],
                      AfterClose(serverWs, ok), "CLOSED")

\* a close() call with the code of a normal closure
ErrorCloseNormal(reason) ==
    [NoEffect EXCEPT !.closeCalled = TRUE, !.code = 1000, !.reason = reason]

\* lines 714-715: close(1011, reason)
ErrorClose(reason) ==
    [NoEffect EXCEPT !.closeCalled = TRUE, !.code = 1011, !.reason = reason]

\* line 714
ClientError ==
    /\ serverWs # "CLOSED"
    /\ RelayStep([NoEvent EXCEPT !.leg = "client", !.kind = "error",
                                 !.targetOpen = (containerWs = "OPEN")],
                 ErrorClose(CLIENT_ERROR),
                 serverWs, AfterClose(containerWs, TRUE))

\* line 715
ContainerError ==
    /\ containerWs # "CLOSED"
    /\ RelayStep([NoEvent EXCEPT !.leg = "container", !.kind = "error",
                                 !.targetOpen = (serverWs = "OPEN")],
                 ErrorClose(CONTAINER_ERROR),
                 AfterClose(serverWs, TRUE), containerWs)

\* ------------------------------------------------------------------------
\* Inputs of the relay
\* ------------------------------------------------------------------------

\* longest url.host of a run
MaxHostLen == 90

X == <<"x">>
BYE == <<"b","y","e">>
SECRET == <<"S">>
GATEWAY_TOKEN == <<"g","a","t","e","w","a","y"," ","t","o","k","e","n">>

\* an object of the given properties, those given as Undefined left out
ObjOf(f) == Obj([k \in {j \in DOMAIN f : f[j] # Undefined} |-> f[k]])

ClientAuths ==
    {Undefined, Str(X),
     ObjOf([token |-> Str(X), password |-> Str(X)])}

DeviceFieldSets ==
    {{}, {"client"}, {"deviceId", "signature"}, {"device", "client"},
     DEVICE_FIELDS, DEVICE_FIELDS \cup {"client"}}

ClientParamObject(K, a) ==
    ObjOf([deviceId |-> IF "deviceId" \in K THEN Str(X) ELSE Undefined,
           devicePublicKey |-> IF "devicePublicKey" \in K THEN Str(X) ELSE Undefined,
           signature |-> IF "signature" \in K THEN Str(X) ELSE Undefined,
           device |-> IF "device" \in K THEN Obj(Empty) ELSE Undefined,
           client |-> IF "client" \in K THEN Str(X) ELSE Undefined,
           auth |-> a])

ClientParams ==
    {Undefined, Null, Bool(FALSE), Bool(TRUE), Num(0), Num(7), Str(<<>>), Str(X),
     Arr(<<>>), Arr(<<Num(1)>>)}
    \cup {ClientParamObject(K, a) : K \in DeviceFieldSets, a \in ClientAuths}

\* connect requests with every params, other frames with two of them
ClientValues ==
    {ObjOf([type |-> Str(REQ), method |-> Str(CONNECT), id |-> i, params |-> p]) :
        i \in {Undefined, Num(1)}, p \in ClientParams}
    \cup {ObjOf([type |-> t, method |-> m, id |-> Num(1), params |-> p]) :
            t \in {Undefined, Str(REQ), Str(RES)},
            m \in {Undefined, Str(CONNECT), Str(CHAT_SEND)},
            p \in {Undefined, ClientParamObject(DEVICE_FIELDS, Str(X))}}
    \cup {Null, Num(1), Str(X), Arr(<<Str(REQ)>>)}

ClientFrames ==
    {Binary, TextRaw} \cup {TextJSON(v, c) : v \in ClientValues, c \in BOOLEAN}

MessageParts == {<<>>, X, TOKEN_MISSING, TOKEN_MISMATCH, PAIRING_REQUIRED, GATEWAY_TOKEN}

MessageTexts == {a \o b : a, b \in MessageParts}

ErrorMessages ==
    {Str(m) : m \in MessageTexts}
    \cup {Undefined, Null, Num(0), Num(5), Bool(TRUE), Obj(Empty), Arr(<<>>),
          Arr(<<Str(TOKEN_MISSING)>>)}

ContainerErrors ==
    {Undefined, Null, Num(1), Str(TOKEN_MISSING)}
    \cup {ObjOf([message |-> m, code |-> c]) :
            m \in ErrorMessages, c \in {Undefined, Num(1)}}

ContainerValues ==
    {ObjOf([type |-> t, error |-> e]) :
        t \in {Undefined, Str(RES)}, e \in ContainerErrors}
    \cup {Null, Num(1), Str(TOKEN_MISSING), Arr(<<Str(PAIRING_REQUIRED)>>)}

ContainerFrames ==
    {Binary, TextRaw} \cup {TextJSON(v, c) : v \in ContainerValues, c \in BOOLEAN}

\* close events: code 1005 stands for a close frame without a status code,
\* 1006 for a connection dropped without a close frame; neither has a reason
CloseEvents(codes, reasons) ==
    {[code |-> c, reason |-> r] : c \in codes, r \in reasons}
    \cup {[code |-> c, reason |-> <<>>] : c \in {1005, 1006}}

ClientCloses == CloseEvents({1000, 1001, 4000}, {<<>>, BYE})

ContainerCloses ==
    CloseEvents({1000, 1008, 1011, 4000},
                {<<>>, BYE, TOKEN_MISSING, X \o TOKEN_MISMATCH, PAIRING_REQUIRED \o X,
                 PAIRING_REQUIRED \o TOKEN_MISSING})

HostOfLen(n) == [i \in 1..n |-> "h"]

\* ------------------------------------------------------------------------
\* Specifications of the relay
\* ------------------------------------------------------------------------

\* lines 639-642: both endpoints accepted
PairAccepted ==
    /\ serverWs = "OPEN"
    /\ containerWs = "OPEN"
    /\ lastEvent = NoEvent
    /\ lastEffect = NoEffect

RelayInit ==
    /\ SupInit
    /\ log = NoLog
    /\ host = HostOfLen(1)
    /\ gatewayToken \in {<<>>, SECRET}
    /\ PairAccepted
    /\ DirectCallers

RelayNext ==
    \/ \E data \in ClientFrames : ClientMessage(data)
    \/ \E data \in ContainerFrames : ContainerMessage(data)
    \/ \E e \in ClientCloses : ClientClose(e.code, e.reason)
    \/ \E e \in ContainerCloses : ContainerClose(e.code, e.reason)
    \/ ClientError
    \/ ContainerError

RelaySpec == RelayInit /\ [][RelayNext]_vars

CloseInit ==
    /\ SupInit
    /\ log = NoLog
    /\ host \in {HostOfLen(n) : n \in 1..MaxHostLen}
    /\ gatewayToken = SECRET
    /\ PairAccepted
    /\ DirectCallers

CloseNext ==
    \/ \E e \in ClientCloses : ClientClose(e.code, e.reason)
    \/ \E e \in ContainerCloses : ContainerClose(e.code, e.reason)
    \/ ClientError
    \/ ContainerError

CloseSpec == CloseInit /\ [][CloseNext]_vars

\* ------------------------------------------------------------------------
\* Properties of the relay
\* ------------------------------------------------------------------------

Handled(leg, kind) == lastEvent.leg = leg /\ lastEvent.kind = kind

\* text that parses as a JSON object with type "req" and method "connect"
IsConnectFrame(f) ==
    /\ f.kind = "text"
    /\ f.raw = "json"
    /\ f.val.t = "obj"
    /\ Get(f.val, "type") = Str(REQ)
    /\ Get(f.val, "method") = Str(CONNECT)

\* text that parses as JSON with a message property in an error object
HasErrorMessage(f) ==
    /\ f.kind = "text"
    /\ f.raw = "json"
    /\ f.val.t = "obj"
    /\ Get(f.val, "error").t = "obj"
    /\ "message" \in DOMAIN Get(f.val, "error").o

\* objects a and b have the same properties, with equal values except at k
EqualExceptAt(a, b, k) ==
    /\ a.t = "obj"
    /\ b.t = "obj"
    /\ DOMAIN a.o \ {k} = DOMAIN b.o \ {k}
    /\ \A j \in DOMAIN a.o \ {k} : a.o[j] = b.o[j]

\* C4: with a gateway token S configured, every client connect request is
\* delivered to the backend with params free of deviceId, devicePublicKey,
\* signature and device, with params.auth exactly {token: S}, and with every
\* other top-level field and params field as the client sent it.
C4_ConnectRewritten ==
    (/\ Handled("client", "message")
     /\ lastEvent.targetOpen
     /\ gatewayToken # <<>>
     /\ IsConnectFrame(lastEvent.data))
    => /\ lastEffect.sent
       /\ lastEffect.data.kind = "text"
       /\ lastEffect.data.raw = "json"
       /\ LET in == lastEvent.data.val
              out == lastEffect.data.val
              p0 == Get(in, "params")
              p == Get(out, "params")
          IN /\ out.t = "obj"
             /\ DOMAIN out.o = DOMAIN in.o \cup {"params"}
             /\ \A k \in DOMAIN in.o \ {"params"} : out.o[k] = in.o[k]
             /\ p.t = "obj"
             /\ "auth" \in DOMAIN p.o
             /\ p.o["auth"] = Obj([k \in {"token"} |-> Str(gatewayToken)])
             /\ DOMAIN p.o \cap DEVICE_FIELDS = {}
             /\ p0.t = "obj" =>
                  /\ DOMAIN p.o = (DOMAIN p0.o \ DEVICE_FIELDS) \cup {"auth"}
                  /\ \A k \in DOMAIN p.o \ {"auth"} : p.o[k] = p0.o[k]

\* C5: a frame that is not rewritten is forwarded byte for byte.  Client to
\* backend: every frame that is not a connect request, and every frame when
\* no token is configured; backend to client: every frame that is binary,
\* not JSON, or without error.message.  Such a frame is sent exactly when
\* the other endpoint is OPEN, and what is sent is the data received.
C5_ForwardedVerbatim ==
    LET verbatim == /\ lastEffect.sent = lastEvent.targetOpen
                    /\ lastEffect.sent => lastEffect.data = lastEvent.data
    IN /\ (/\ Handled("client", "message")
           /\ (gatewayToken = <<>> \/ ~IsConnectFrame(lastEvent.data)))
          => verbatim
       /\ (/\ Handled("container", "message")
           /\ ~HasErrorMessage(lastEvent.data))
          => verbatim

\* a JSON frame whose text is not what JSON.stringify would write, not a
\* connect request, reached the backend as received while a token is set
C5_Witness ==
    /\ Handled("client", "message")
    /\ gatewayToken # <<>>
    /\ lastEvent.data.raw = "json"
    /\ ~lastEvent.data.canon
    /\ lastEvent.data.val.t = "obj"
    /\ Get(lastEvent.data.val, "type") = Str(REQ)
    /\ ~IsConnectFrame(lastEvent.data)
    /\ lastEffect.sent
    /\ lastEffect.data = lastEvent.data

\* C6: when the backend-facing endpoint closes with code c and reason r
\* while the client-facing endpoint is open, the client-facing endpoint is
\* closed with code c and with r passed through the substitution table and
\* capped, for every code and reason.
C6_BackendClosePropagated ==
    (Handled("container", "close") /\ lastEvent.targetOpen)
    => /\ lastEffect.closeCalled
       /\ ~lastEffect.threw
       /\ serverWs # "OPEN"
       /\ lastEffect.code = lastEvent.code
       /\ LET r == lastEvent.reason
              substituted ==
                  IF Includes(r, TOKEN_MISSING) \/ Includes(r, TOKEN_MISMATCH)
                  THEN TokenHint(host)
                  ELSE IF Includes(r, PAIRING_REQUIRED) THEN PairingHint(host)
                  ELSE r
          IN lastEffect.reason = IF Len(substituted) > REASON_LIMIT
                                 THEN SubSeq(substituted, 1, REASON_KEPT) \o ELLIPSIS
                                 ELSE substituted

\* C7: when the client-facing endpoint closes with code c and reason r while
\* the backend-facing endpoint is open, the backend-facing endpoint is closed
\* with the same c and r, for every code and reason (a close without status
\* code and an abnormal drop included).
C7_ClientClosePropagated ==
    (Handled("client", "close") /\ lastEvent.targetOpen)
    => /\ lastEffect.closeCalled
       /\ ~lastEffect.threw
       /\ containerWs # "OPEN"
       /\ lastEffect.code = lastEvent.code
       /\ lastEffect.reason = lastEvent.reason

\* C8: a backend text frame that parses as JSON and carries the string m as
\* error.message is delivered with the same structure and with error.message
\* replaced: by the token hint if m contains 'gateway token missing' or
\* 'gateway token mismatch', else by the pairing hint if m contains
\* 'pairing required', else by m itself.
C8_ErrorMessageTransformed ==
    (/\ Handled("container", "message")
     /\ lastEvent.targetOpen
     /\ HasErrorMessage(lastEvent.data)
     /\ Get(Get(lastEvent.data.val, "error"), "message").t = "str")
    => /\ lastEffect.sent
       /\ lastEffect.data.kind = "text"
       /\ lastEffect.data.raw = "json"
       /\ LET in == lastEvent.data.val
              out == lastEffect.data.val
              m == Get(Get(in, "error"), "message").s
              token == Includes(m, TOKEN_MISSING) \/ Includes(m, TOKEN_MISMATCH)
              pairing == Includes(m, PAIRING_REQUIRED)
          IN /\ EqualExceptAt(in, out, "error")
             /\ "error" \in DOMAIN out.o
             /\ EqualExceptAt(in.o["error"], out.o["error"], "message")
             /\ "message" \in DOMAIN out.o["error"].o
             /\ LET delivered == out.o["error"].o["message"] IN
                /\ token => delivered = Str(TokenHint(host))
                /\ (pairing /\ ~token) => delivered = Str(PairingHint(host))
                /\ (~pairing /\ ~token) => delivered = Str(m)

\* a message with both patterns, the pairing one first, got the token hint
C8_Witness ==
    /\ Handled("container", "message")
    /\ HasErrorMessage(lastEvent.data)
    /\ Get(Get(lastEvent.data.val, "error"), "message")
         = Str(PAIRING_REQUIRED \o TOKEN_MISMATCH)
    /\ "code" \in DOMAIN Get(lastEvent.data.val, "error").o
    /\ lastEffect.sent
    /\ Get(Get(lastEffect.data.val, "error"), "message") = Str(TokenHint(host))

\* C13: an error event on an endpoint makes the listener call close(1011,
\* reason) on the other endpoint, with reason 'Client error' for the
\* client-facing and 'Container error' for the backend-facing endpoint; the
\* call is accepted, and the other endpoint is no longer OPEN after it.
C13_ErrorClosesOther ==
    /\ Handled("client", "error")
          => /\ lastEffect.closeCalled
             /\ ~lastEffect.threw
             /\ lastEffect.code = 1011
             /\ lastEffect.reason = CLIENT_ERROR
             /\ containerWs # "OPEN"
    /\ Handled("container", "error")
          => /\ lastEffect.closeCalled
             /\ ~lastEffect.threw
             /\ lastEffect.code = 1011
             /\ lastEffect.reason = CONTAINER_ERROR
             /\ serverWs # "OPEN"

\* C13 witness: the backend-facing endpoint had an error while the
\* client-facing one was open, which is now closing
C13_Witness ==
    /\ Handled("container", "error")
    /\ lastEvent.targetOpen
    /\ lastEffect.code = 1011
    /\ serverWs = "CLOSING"

\* the reason of the backend's close after transformErrorMessage
TransformedReason ==
    LET r == lastEvent.reason IN
    IF Includes(r, TOKEN_MISSING) \/ Includes(r, TOKEN_MISMATCH)
    THEN TokenHint(host)
    ELSE IF Includes(r, PAIRING_REQUIRED) THEN PairingHint(host)
    ELSE r

\* C24: the reason string passed to the client-facing close never exceeds 123
\* characters: a transformed reason of length at most 123 is passed whole, and
\* a longer one is replaced by its first 120 characters followed by '...'.
C24_ReasonCapped ==
    (lastEvent.leg = "container" /\ lastEffect.closeCalled)
    => /\ Len(lastEffect.reason) <= 123
       /\ Handled("container", "close")
            => /\ Len(TransformedReason) <= 123
                    => lastEffect.reason = TransformedReason
               /\ Len(TransformedReason) > 123
                    => /\ Len(lastEffect.reason) = 123
                       /\ SubSeq(lastEffect.reason, 1, 120)
                            = SubSeq(TransformedReason, 1, 120)
                       /\ SubSeq(lastEffect.reason, 121, 123)
                            = <<".", ".", ".">>

\* C24 witness: the backend closed with a reason whose hint, with this host,
\* is one character too long, and the client-facing close got 120 characters
\* of it and the ellipsis
C24_Witness ==
    /\ Handled("container", "close")
    /\ lastEffect.closeCalled
    /\ Len(TransformedReason) = 124
    /\ Len(lastEffect.reason) = 123
    /\ lastEffect.reason[123] = "."
    /\ lastEffect.reason[120] = TransformedReason[120]

\* ------------------------------------------------------------------------
\* A recorded relay session
\* ------------------------------------------------------------------------

\* a connect request with device identity, not formatted as JSON.stringify
\* would, and a chat request
SessionClientFrames ==
    {TextJSON(ObjOf([type |-> Str(REQ), method |-> Str(CONNECT), id |-> Num(1),
                     params |-> ClientParamObject({"deviceId", "signature"},
                                                  Undefined)]), FALSE),
     TextJSON(ObjOf([type |-> Str(REQ), method |-> Str(CHAT_SEND), id |-> Num(1),
                     params |-> Undefined]), FALSE)}

\* an error response and text that is not JSON
SessionContainerFrames ==
    {TextJSON(ObjOf([type |-> Str(RES),
                     error |-> ObjOf([message |-> Str(TOKEN_MISMATCH)])]), FALSE),
     TextRaw}

SessionInit ==
    /\ SupInit
    /\ log = EmptyLog
    /\ host = HostOfLen(1)
    /\ gatewayToken = SECRET
    /\ PairAccepted
    /\ DirectCallers

SessionNext ==
    \/ \E data \in SessionClientFrames : ClientMessage(data)
    \/ \E data \in SessionContainerFrames : ContainerMessage(data)
    \/ ClientClose(1000, <<>>)
    \/ ContainerClose(1000, <<>>)
    \/ ClientError
    \/ ContainerError

SessionSpec == SessionInit /\ [][SessionNext]_vars

Legs == {"client", "container"}

\* C14: in each direction the frames sent to the destination endpoint are,
\* in the order sent, frames received from the source endpoint at strictly
\* increasing positions: no reordering, and no frame is sent after a frame
\* that was received later.
C14_DeliveredInOrder ==
    \A leg \in Legs :
        LET sent == log.delivered[leg] IN
        /\ \A i \in 1..Len(sent) : sent[i].n \in 1..Len(log.received[leg])
        /\ \A i \in 1..Len(sent), j \in 1..Len(sent) :
              i < j => sent[i].n < sent[j].n

\* C14 witness: three frames from the client reached the backend, the
\* second of them rewritten, and of two frames from the backend the first
\* reached the client and the second came when the client-facing endpoint
\* was no longer OPEN
C14_Witness ==
    /\ Len(log.delivered["client"]) = 3
    /\ log.delivered["client"][2].data # log.received["client"][2]
    /\ log.delivered["client"][3].data = log.received["client"][3]
    /\ Len(log.received["container"]) = 2
    /\ Len(log.delivered["container"]) = 1

\* the frames of the client that reached the backend, as positions of
\* log.delivered["client"]
ClientDelivered == 1..Len(log.delivered["client"])

\* the frame received from the client that the i-th delivered frame came from
ReceivedOf(i) == log.received["client"][log.delivered["client"][i].n]

\* a connect request was received from the client before the one the i-th
\* delivered frame came from
ConnectBefore(i) ==
    \E m \in 1..(log.delivered["client"][i].n - 1) :
        IsConnectFrame(log.received["client"][m])

\* C18 as stated: only the first connect request of a session is rewritten;
\* a later connect request reaches the backend as it was received.
C18_OnlyFirstConnectRewritten ==
    \A i \in ClientDelivered :
        (IsConnectFrame(ReceivedOf(i)) /\ ConnectBefore(i))
          => log.delivered["client"][i].data = ReceivedOf(i)

\* C18 (amended): with a token configured, every connect request of a
\* session whose params is an object is rewritten, the first and every later
\* one alike: the frame sent has params.auth = {token: S} and no device
\* identity field; every other frame is sent as received.
C18_EveryConnectRewritten ==
    \A i \in ClientDelivered :
        LET rcv == ReceivedOf(i)
            out == log.delivered["client"][i].data
        IN IF IsConnectFrame(rcv) /\ Get(rcv.val, "params").t = "obj"
           THEN /\ out # rcv
                /\ out.raw = "json"
                /\ EqualExceptAt(rcv.val, out.val, "params")
                /\ Get(out.val, "params").t = "obj"
                /\ Get(Get(out.val, "params"), "auth")
                     = Obj([k \in {"token"} |-> Str(gatewayToken)])
                /\ DOMAIN Get(out.val, "params").o \cap DEVICE_FIELDS = {}
           ELSE out = rcv

\* C18 witness: the second and the third frame of the client were connect
\* requests, and both reached the backend rewritten
C18_Witness ==
    /\ Len(log.delivered["client"]) = 3
    /\ ~IsConnectFrame(ReceivedOf(1))
    /\ IsConnectFrame(ReceivedOf(2))
    /\ IsConnectFrame(ReceivedOf(3))
    /\ log.delivered["client"][2].data # ReceivedOf(2)
    /\ log.delivered["client"][3].data # ReceivedOf(3)

\* the endpoint a frame from leg is sent to
Target(leg) == IF leg = "client" THEN containerWs ELSE serverWs

\* C27: the relay never sends a frame to an endpoint whose readyState is not
\* OPEN: a frame received from one leg while the other leg is closing or
\* closed is dropped (not buffered, not retried, no error raised), and frames
\* received afterwards while their destination is OPEN are still forwarded.
\* Stated over the steps of a recorded session: the frames sent to an endpoint
\* grow only by the frame just received, and only when that endpoint is OPEN;
\* a 'message' listener run sends exactly when its destination is OPEN, and
\* neither throws nor closes nor changes a readyState.
C27_NeverSentUnlessOpen ==
    [][\A leg \in Legs :
        LET got == log.received[leg]
            got2 == log'.received[leg]
            sent == log.delivered[leg]
            sent2 == log'.delivered[leg] IN
        /\ sent2 # sent
              => /\ Target(leg) = "OPEN"
                 /\ Len(got2) = Len(got) + 1
                 /\ Len(sent2) = Len(sent) + 1
                 /\ SubSeq(sent2, 1, Len(sent)) = sent
                 /\ sent2[Len(sent2)].n = Len(got2)
        /\ got2 # got
              => /\ lastEvent'.leg = leg
                 /\ lastEvent'.kind = "message"
                 /\ lastEffect'.sent <=> (Target(leg) = "OPEN")
                 /\ (sent2 # sent) <=> (Target(leg) = "OPEN")
                 /\ ~lastEffect'.threw
                 /\ ~lastEffect'.closeCalled
                 /\ serverWs' = serverWs
                 /\ containerWs' = containerWs]_vars

\* C27 witness: a frame from the backend was dropped because the
\* client-facing endpoint is closing, and a frame the client sent after that
\* has just been forwarded to the backend-facing endpoint, which is OPEN
C27_Witness ==
    /\ serverWs = "CLOSING"
    /\ containerWs = "OPEN"
    /\ Len(log.received["container"]) > Len(log.delivered["container"])
    /\ Handled("client", "message")
    /\ lastEffect.sent
    /\ Len(log.delivered["client"]) = Len(log.received["client"])

====
